---- MODULE Spec2Model ----
(***************************************************************************)
(* Spin-direction refinement notebooks of cmi_exchange.                    *)
(*                                                                         *)
(* Numbers.  Angles live on an exact grid: index g stands for the angle    *)
(*   (g \div 3) * pi/2 + off(g % 3),  off = 0, atan(3/4), pi/2 - atan(3/4) *)
(* so that 5*cos and 5*sin are integers (the 3-4-5 triangle) and index     *)
(* PiIdx is pi.  A direction vector is stored times 25, the three scalar   *)
(* parameters (oscale, pscale, damp) in tenths.                            *)
(***************************************************************************)
EXTENDS Integers, Sequences, FiniteSets, TLC

VARIABLES
    pc,        \* position of the notebook run / fit driver
    method,    \* which residual the fit uses: "regen" or "masked"
    regen,     \* mstr and mc of the regeneration section
    masked,    \* mstr and mc of the masked section
    svecR,     \* svec of the regeneration section
    svecM,     \* svec of the masked section
    upMask,    \* upMask (a boolean array over the sites), None before it is made
    downMask,  \* downMask
    lastR,     \* last evaluation of the regeneration residual: [p, ret]
    lastM,     \* last evaluation of the masked residual: [p, ret]
    sol,       \* the least_squares call: iterate, result, error, fit, call count
    co,        \* the co-refinement recipe
    probe      \* a direction vector computed at one of the three call sites

vars == <<pc, method, regen, masked, svecR, svecM, upMask, downMask,
          lastR, lastM, sol, co, probe>>

\* np.pi on the angle grid.
PiIdx == 6

\* Number of magnetic sites of the structure (magIdxs / generated atoms).
NSites == 2

Sites == 1..NSites

-----------------------------------------------------------------------------
(* np.cos, np.sin, np.arccos on the grid (values times 5)                  *)

CosOff == <<5, 4, 3>>
SinOff == <<0, 3, 4>>

Cos5(g) ==
    LET q == (g \div 3) % 4
        o == (g % 3) + 1
    IN  CASE q = 0 -> CosOff[o]
          [] q = 1 -> -SinOff[o]
          [] q = 2 -> -CosOff[o]
          [] q = 3 -> SinOff[o]

Sin5(g) ==
    LET q == (g \div 3) % 4
        o == (g % 3) + 1
    IN  CASE q = 0 -> SinOff[o]
          [] q = 1 -> CosOff[o]
          [] q = 2 -> -SinOff[o]
          [] q = 3 -> -CosOff[o]

\* np.arccos: the angle in [0, pi] whose cosine is u/5.
ArcCos(u) == CHOOSE g \in 0..PiIdx : Cos5(g) = u

\* The values np.random.uniform(-1,1) takes on the grid (times 5).
UniformUnit == {-5, -4, -3, 0, 3, 4, 5}

\* np.random.uniform(-np.pi,np.pi) on the grid; the upper end is kept, which
\* numpy documents as reachable through rounding.
UniformPhi == (-PiIdx)..PiIdx

-----------------------------------------------------------------------------
(* 3-vectors                                                               *)

Neg(v) == <<-v[1], -v[2], -v[3]>>
Scal(c, v) == <<c * v[1], c * v[2], c * v[3]>>
Norm2(v) == v[1] * v[1] + v[2] * v[2] + v[3] * v[3]
Dist2(a, b) == Norm2(<<a[1] - b[1], a[2] - b[2], a[3] - b[3]>>)

\* The squared length of a unit vector in the stored scale (25 * 25).
UnitNorm2 == (5 * 5) * (5 * 5)

\* Faulty variant: sin(th) in place of cos(th) for z.
DirectionSinZ(th, phi) ==
    <<Sin5(th) * Cos5(phi), Sin5(th) * Sin5(phi), 5 * Sin5(th)>>

\* np.array([np.sin(th)*np.cos(phi),np.sin(th)*np.sin(phi),np.cos(th)]), times 25.
Direction(th, phi) ==
    <<Sin5(th) * Cos5(phi), Sin5(th) * Sin5(phi), 5 * Cos5(th)>>

-----------------------------------------------------------------------------
(* Parameter vectors p = [oscale, pscale, damp, th, phi]                   *)

Param(sc, th, phi) ==
    [oscale |-> sc[1], pscale |-> sc[2], damp |-> sc[3], th |-> th, phi |-> phi]

\* Sample values of (oscale, pscale, damp), in tenths; the last two lie outside
\* the box bounds.
ScalarSamples ==
    {<<1, 1, 1>>, <<100, 0, 5>>, <<-1, 1, 1>>, <<1, 1, 101>>}

\* Sample polar and azimuthal angles; -1, 7 and -7 lie outside the box bounds.
ThetaSamples == {-1, 0, 1, PiIdx, PiIdx + 1}
PhiSamples == {-(PiIdx + 1), -PiIdx, 0, 2, PiIdx + 1}

ParamSamples ==
    {Param(sc, th, phi) : sc \in ScalarSamples, th \in ThetaSamples, phi \in PhiSamples}

\* Faulty variant: a lower bound of -2 pi for phi.
lbWide == Param(<<0, 0, 0>>, 0, -(2 * PiIdx))

\* bounds=[[0,0,0,0,-np.pi],[10,10,10,np.pi,np.pi]]
lb == Param(<<0, 0, 0>>, 0, -PiIdx)

ub == Param(<<100, 100, 100>>, PiIdx, PiIdx)

Fields == {"oscale", "pscale", "damp", "th", "phi"}

\* scipy's in_bounds(x, lb, ub)
InBounds(x, lo, hi) == \A f \in Fields : lo[f] <= x[f] /\ x[f] <= hi[f]

\* The points a solver bounded by (lb, ub) may evaluate.
Box == {x \in ParamSamples : InBounds(x, lb, ub)}

None == [none |-> TRUE]

-----------------------------------------------------------------------------
(* The magnetic structure and its calculator                               *)
(*   m = [basisvecs, kr, spins, ordScale, paraScale, dampRate]             *)
(* kr[i] is k.r of site i in quarter turns (kvecs and the atom positions). *)

\* k.r of a site, in quarter turns: 0, 1/4, 1/2.
KdotR == {0, 1, 2}

\* cos(2 pi k.r), the factor the propagation vector gives a site's spin.
PhaseFactor(q) == Cos5(3 * q) \div 5

\* MagStructure.makeSpins(): every site's spin from the basis vector.
MakeSpins(m) == [i \in Sites |-> Scal(PhaseFactor(m.kr[i]), m.basisvecs)]

\* MagStructure.makeAll(): atoms, spins and the rest from the species.
MakeAll(m) == [m EXCEPT !.spins = MakeSpins(m)]

\* MagSpecies(..., basisvecs=svec, kvecs=...), loadSpecies, makeAll and
\* MPDFcalculator(mstr) with its default scales.
MakeStructure(kr, svec) ==
    MakeAll([basisvecs |-> svec, kr |-> kr,
             spins |-> [i \in Sites |-> <<0, 0, 0>>],
             ordScale |-> 10, paraScale |-> 10, dampRate |-> 0])

\* mc.calc(both=True)[2]: a function of the spins and the three scalars,
\* left uninterpreted (it is represented by what it reads).
Calc(m) ==
    [spins |-> m.spins, ordScale |-> m.ordScale,
     paraScale |-> m.paraScale, dampRate |-> m.dampRate]

\* ydata - mc.calc(both=True)[2]
ResidualValue(m, ydata) == [obs |-> ydata, calc |-> Calc(m)]

\* The observed data d of getDiffData.
YData == "d"

\* Faulty variant: makeSpins called before the basis vector is set.
RegenStateSpinsFirst(m, p) ==
    LET newsvec == Direction(p.th, p.phi)
        m1 == [m EXCEPT !.spins = MakeSpins(m)]
        m2 == [m1 EXCEPT !.basisvecs = newsvec]
    IN  [m2 EXCEPT !.ordScale = p.oscale, !.paraScale = p.pscale,
                   !.dampRate = p.damp]

\* The state the regeneration residual leaves behind:
\*   basisvecs = newsvec ; makeSpins() ; ordScale, paraScale, dampRate.
RegenState(m, p) ==
    LET newsvec == Direction(p.th, p.phi)
        m1 == [m EXCEPT !.basisvecs = newsvec]
        m2 == [m1 EXCEPT !.spins = MakeSpins(m1)]
    IN  [m2 EXCEPT !.ordScale = p.oscale, !.paraScale = p.pscale,
                   !.dampRate = p.damp]

\* Faulty variant: the comparison turned around.
UpMaskOfFar(spins, svec) ==
    [i \in Sites |-> 100 * Dist2(spins[i], svec) > UnitNorm2]

\* upMask = (np.apply_along_axis(np.linalg.norm,1,mstr.spins-svec)<0.1)
UpMaskOf(spins, svec) ==
    [i \in Sites |-> 100 * Dist2(spins[i], svec) < UnitNorm2]

\* Faulty variant: downMask from closeness to -svec.
DownMaskOfNearMinus(up, spins, svec) ==
    [i \in Sites |-> 100 * Dist2(spins[i], Neg(svec)) < UnitNorm2]

\* downMask = ~upMask
DownMaskOf(up, spins, svec) == [i \in Sites |-> ~up[i]]

\* Faulty variant: the downMask assignment left out.
MaskedStateUpOnly(m, p, up, down) ==
    LET newsvec == Direction(p.th, p.phi)
    IN  [m EXCEPT !.spins = [i \in Sites |-> IF up[i] THEN newsvec ELSE m.spins[i]],
                  !.ordScale = p.oscale, !.paraScale = p.pscale,
                  !.dampRate = p.damp]

\* Faulty variant: the species basis vector assigned too.
MaskedStateSetsBasis(m, p, up, down) ==
    LET newsvec == Direction(p.th, p.phi)
        s1 == [i \in Sites |-> IF up[i] THEN newsvec ELSE m.spins[i]]
        s2 == [i \in Sites |-> IF down[i] THEN Neg(newsvec) ELSE s1[i]]
    IN  [m EXCEPT !.basisvecs = newsvec, !.spins = s2,
                  !.ordScale = p.oscale, !.paraScale = p.pscale,
                  !.dampRate = p.damp]

\* The state the masked residual leaves behind:
\*   mstr.spins[upMask]=newsvec ; mstr.spins[downMask]=-newsvec ; scalars.
MaskedState(m, p, up, down) ==
    LET newsvec == Direction(p.th, p.phi)
        s1 == [i \in Sites |-> IF up[i] THEN newsvec ELSE m.spins[i]]
        s2 == [i \in Sites |-> IF down[i] THEN Neg(newsvec) ELSE s1[i]]
    IN  [m EXCEPT !.spins = s2,
                  !.ordScale = p.oscale, !.paraScale = p.pscale,
                  !.dampRate = p.damp]

-----------------------------------------------------------------------------
(* Residual evaluations on the two structures, side by side                *)

\* The (uniform(-1,1), uniform(-pi,pi)) draws sampled for th0, phi0.
StructDraws == {<<0, 2>>, <<-4, -3>>}

\* th0, phi0 = np.arccos(np.random.uniform(-1,1)), np.random.uniform(-np.pi,np.pi)
\* svec = np.array([...])
Svec(draw) == Direction(ArcCos(draw[1]), draw[2])

InitEval ==
    /\ pc = "eval"
    /\ method = "both"
    /\ \E kr \in [Sites -> KdotR], dR \in StructDraws, dM \in StructDraws :
          /\ svecR = Svec(dR)
          /\ svecM = Svec(dM)
          /\ regen = MakeStructure(kr, svecR)
          /\ masked = MakeStructure(kr, svecM)
    /\ upMask = None
    /\ downMask = None
    /\ lastR = None
    /\ lastM = None
    /\ sol = None
    /\ co = None
    /\ probe = None

\* The "Make the masks" cell.
MakeMasks ==
    /\ upMask = None
    /\ method \in {"both", "masked"}
    /\ pc \in {"eval", "built"}
    /\ upMask' = UpMaskOf(masked.spins, svecM)
    /\ downMask' = DownMaskOf(upMask', masked.spins, svecM)
    /\ pc' = IF pc = "built" THEN "masks" ELSE pc
    /\ UNCHANGED <<method, regen, masked, svecR, svecM, lastR, lastM, sol, co, probe>>

\* residual(p, d) of the regeneration section.
EvalRegen(p) ==
    /\ pc = "eval"
    /\ regen' = RegenState(regen, p)
    /\ lastR' = [p |-> p, ret |-> ResidualValue(regen', YData)]
    /\ UNCHANGED <<pc, method, masked, svecR, svecM, upMask, downMask, lastM,
                   sol, co, probe>>

\* residual(p, d) of the masked section.
EvalMasked(p) ==
    /\ pc = "eval"
    /\ upMask # None
    /\ masked' = MaskedState(masked, p, upMask, downMask)
    /\ lastM' = [p |-> p, ret |-> ResidualValue(masked', YData)]
    /\ UNCHANGED <<pc, method, regen, svecR, svecM, upMask, downMask, lastR,
                   sol, co, probe>>

NextEval ==
    \/ MakeMasks
    \/ \E p \in Box : EvalRegen(p)
    \/ \E p \in Box : EvalMasked(p)

SpecEval == InitEval /\ [][NextEval]_vars

-----------------------------------------------------------------------------
(* Properties of the residual evaluations (checked under SpecEval)         *)

\* Every site's regenerated spin is +basis or -basis.
TwoDomain(kr) == \A i \in Sites : PhaseFactor(kr[i]) \in {-1, 1}

\* C1: on an exactly two-domain collinear structure, once both residuals have
\* last been evaluated at the same parameter vector (whatever was evaluated
\* before on either path), the spin arrays and the three calculator scalars
\* agree and so do the calculated signals and the returned residuals; and
\* from any such pair of states the two residuals agree at every (theta, phi)
\* of the grid.
C1_MaskedEqualsRegen ==
    /\ (/\ TwoDomain(regen.kr)
        /\ lastR # None
        /\ lastM # None
        /\ lastR.p = lastM.p)
       => /\ regen.spins = masked.spins
          /\ regen.ordScale = masked.ordScale
          /\ regen.paraScale = masked.paraScale
          /\ regen.dampRate = masked.dampRate
          /\ Calc(regen) = Calc(masked)
          /\ lastR.ret = lastM.ret
    /\ (TwoDomain(regen.kr) /\ upMask # None)
       => \A th \in 0..PiIdx, phi \in (-PiIdx)..PiIdx :
             LET p == Param(<<100, 0, 5>>, th, phi)
             IN  ResidualValue(RegenState(regen, p), YData)
                   = ResidualValue(MaskedState(masked, p, upMask, downMask), YData)

C1_Witness ==
    /\ TwoDomain(regen.kr)
    /\ \E i, j \in Sites : PhaseFactor(regen.kr[i]) # PhaseFactor(regen.kr[j])
    /\ lastR # None
    /\ lastM # None
    /\ lastR.p = lastM.p
    /\ svecR # svecM
    /\ masked.spins = regen.spins
    /\ \E i \in Sites : masked.spins[i] \notin {svecM, Neg(svecM)}

\* C2: once the masks are made, every site is in exactly one of upMask and
\* downMask, whatever the reference spins were.
C2_MasksComplementary ==
    upMask # None =>
        /\ DOMAIN upMask = Sites
        /\ DOMAIN downMask = Sites
        /\ \A i \in Sites : upMask[i] # downMask[i]

C2_Witness ==
    /\ upMask # None
    /\ \E i \in Sites : PhaseFactor(masked.kr[i]) = 0 /\ downMask[i]
    /\ \E i \in Sites : upMask[i]

\* C3: after an evaluation of the masked residual at (th, phi), every site of
\* upMask holds +Direction(th, phi), every site of downMask holds
\* -Direction(th, phi), and every spin of the array is one of the two.
C3_MaskedSpins ==
    lastM # None =>
        LET d == Direction(lastM.p.th, lastM.p.phi)
        IN  \A i \in Sites :
                /\ upMask[i] => masked.spins[i] = d
                /\ downMask[i] => masked.spins[i] = Neg(d)
                /\ masked.spins[i] \in {d, Neg(d)}

\* theta=0, phi=0 with A={first site}, B={second site}: [(0,0,1), (0,0,-1)].
C3_Witness ==
    /\ lastM # None
    /\ lastM.p.th = 0
    /\ lastM.p.phi = 0
    /\ upMask[1]
    /\ downMask[2]
    /\ masked.spins[1] = <<0, 0, 25>>
    /\ masked.spins[2] = <<0, 0, -25>>
    /\ PhaseFactor(masked.kr[2]) = 0

\* C5: an evaluation of the masked residual leaves upMask, downMask, the
\* species' basis vector and k.r (propagation vector, atom positions) as they
\* were.
C5_MaskedFrame ==
    [][lastM' # lastM =>
          /\ upMask' = upMask
          /\ downMask' = downMask
          /\ masked'.basisvecs = masked.basisvecs
          /\ masked'.kr = masked.kr]_vars

C5_Witness ==
    /\ lastM # None
    /\ upMask = UpMaskOf(MakeStructure(masked.kr, svecM).spins, svecM)
    /\ masked.basisvecs = svecM
    /\ masked.spins # MakeStructure(masked.kr, svecM).spins
    /\ masked.ordScale = lastM.p.oscale

\* C10: the state a residual evaluation leaves, and the residual it returns,
\* are those of evaluating at the same p on the freshly built structure,
\* whatever was evaluated before.
C10_HistoryIndependent ==
    /\ lastR # None =>
          LET fresh == RegenState(MakeStructure(regen.kr, svecR), lastR.p)
          IN  /\ regen = fresh
              /\ lastR.ret = ResidualValue(fresh, YData)
    /\ lastM # None =>
          LET fresh == MaskedState(MakeStructure(masked.kr, svecM), lastM.p,
                                   upMask, downMask)
          IN  /\ masked = fresh
              /\ lastM.ret = ResidualValue(fresh, YData)

C10_Witness ==
    /\ lastR # None
    /\ lastM # None
    /\ lastR.p # lastM.p
    /\ regen.basisvecs # svecR
    /\ masked.spins # MakeStructure(masked.kr, svecM).spins

-----------------------------------------------------------------------------
(* One refinement run: structure, masks, p0, least_squares, fit            *)

\* p0 = [0.1,0.1,0.1,np.arccos(np.random.uniform(-1,1)),
\*       np.random.uniform(-np.pi,np.pi)]
P0(u, phi) == Param(<<1, 1, 1>>, ArcCos(u), phi)

\* The (uniform(-1,1), uniform(-pi,pi)) draws sampled for p0.
P0Draws == {5, 4, -5} \X {-PiIdx, 0, 2}

\* No exception.
NoError == "no error"

\* sol before least_squares is called: iterate x, result optimized, the
\* exception a collaborator raised, the exception the cell ended with, the
\* fitted signal, and the number of least_squares calls.
NoSol ==
    [x |-> None, optimized |-> None, raised |-> NoError, err |-> NoError,
     fit |-> None, calls |-> 0]

Init ==
    /\ pc = "built"
    /\ method \in {"regen", "masked"}
    /\ \E kr \in [Sites -> KdotR], d \in StructDraws :
          /\ svecR = IF method = "regen" THEN Svec(d) ELSE None
          /\ svecM = IF method = "masked" THEN Svec(d) ELSE None
          /\ regen = IF method = "regen" THEN MakeStructure(kr, svecR) ELSE None
          /\ masked = IF method = "masked" THEN MakeStructure(kr, svecM) ELSE None
    /\ upMask = None
    /\ downMask = None
    /\ lastR = None
    /\ lastM = None
    /\ sol = NoSol
    /\ co = None
    /\ probe = None

\* The structure (and calculator) the run's residual works on.
Mstr == IF method = "regen" THEN regen ELSE masked

\* The state residual(p, d) leaves behind, for the run's method.
ResidualState(m, p) ==
    IF method = "regen" THEN RegenState(m, p)
    ELSE MaskedState(m, p, upMask, downMask)

\* One call residual(p, d) that returns.
Evaluate(p) ==
    LET m == ResidualState(Mstr, p)
        rec == [p |-> p, ret |-> ResidualValue(m, YData)]
    IN  /\ regen' = IF method = "regen" THEN m ELSE regen
        /\ masked' = IF method = "masked" THEN m ELSE masked
        /\ lastR' = IF method = "regen" THEN rec ELSE lastR
        /\ lastM' = IF method = "masked" THEN rec ELSE lastM

\* The collaborators whose failure a call of residual can meet.
FailureModes == IF method = "regen" THEN {"makeSpins", "calc"} ELSE {"calc"}

\* One call residual(p, d) in which collaborator e raises: the assignments
\* before the failing call have been made.
EvaluateRaising(p, e) ==
    LET m == IF e = "makeSpins"
             THEN [Mstr EXCEPT !.basisvecs = Direction(p.th, p.phi)]
             ELSE ResidualState(Mstr, p)
        rec == [p |-> p, ret |-> None]
    IN  /\ regen' = IF method = "regen" THEN m ELSE regen
        /\ masked' = IF method = "masked" THEN m ELSE masked
        /\ lastR' = IF method = "regen" THEN rec ELSE lastR
        /\ lastM' = IF method = "masked" THEN rec ELSE lastM

\* Faulty variant: the error is caught, translated and the fit started again.
AfterRaiseRetry(e) ==
    [pc |-> IF method = "regen" THEN "built" ELSE "masks", err |-> "fit failed"]

\* What an exception leaving residual does to the run: nothing catches it in
\* residual, in least_squares or in the cell, so the cell ends with it.
AfterRaise(e) == [pc |-> "raised", err |-> e]

\* p0 = [...] and least_squares(residual, p0, bounds=...): x0 is checked
\* against the bounds and the residual is evaluated at x0.
CallSolver ==
    /\ pc = IF method = "regen" THEN "built" ELSE "masks"
    /\ \E d \in P0Draws :
          LET p0 == P0(d[1], d[2])
          IN  IF InBounds(p0, lb, ub)
              THEN /\ Evaluate(p0)
                   /\ sol' = [sol EXCEPT !.calls = @ + 1, !.x = p0]
                   /\ pc' = "solving"
              ELSE /\ sol' = [sol EXCEPT !.calls = @ + 1,
                                         !.raised = "x0 is infeasible",
                                         !.err = AfterRaise("x0 is infeasible").err]
                   /\ pc' = AfterRaise("x0 is infeasible").pc
                   /\ UNCHANGED <<regen, masked, lastR, lastM>>
    /\ UNCHANGED <<method, svecR, svecM, upMask, downMask, co, probe>>

\* The residual raises at x0.
CallSolverRaises(e) ==
    /\ pc = IF method = "regen" THEN "built" ELSE "masks"
    /\ e \in FailureModes
    /\ \E d \in P0Draws :
          /\ InBounds(P0(d[1], d[2]), lb, ub)
          /\ EvaluateRaising(P0(d[1], d[2]), e)
    /\ sol' = [sol EXCEPT !.calls = @ + 1, !.raised = e, !.err = AfterRaise(e).err]
    /\ pc' = AfterRaise(e).pc
    /\ UNCHANGED <<method, svecR, svecM, upMask, downMask, co, probe>>

\* A trial step the solver accepts: the residual is evaluated at xn, which
\* becomes the iterate.
Step(xn) ==
    /\ pc = "solving"
    /\ xn \in Box
    /\ Evaluate(xn)
    /\ sol' = [sol EXCEPT !.x = xn]
    /\ UNCHANGED <<pc, method, svecR, svecM, upMask, downMask, co, probe>>

\* An evaluation that does not move the iterate: a finite-difference point of
\* the Jacobian or a trial step the solver rejects.
Probe(xn) ==
    /\ pc = "solving"
    /\ xn \in Box
    /\ xn # sol.x
    /\ Evaluate(xn)
    /\ UNCHANGED <<pc, method, svecR, svecM, upMask, downMask, sol, co, probe>>

\* The residual raises during the solve: the solver's frame, and its iterate,
\* are gone.
SolveRaises(xn, e) ==
    /\ pc = "solving"
    /\ xn \in Box
    /\ e \in FailureModes
    /\ EvaluateRaising(xn, e)
    /\ sol' = [sol EXCEPT !.x = None, !.raised = e, !.err = AfterRaise(e).err]
    /\ pc' = AfterRaise(e).pc
    /\ UNCHANGED <<method, svecR, svecM, upMask, downMask, co, probe>>

\* least_squares returns: optimized.x is the iterate.
SolverReturn ==
    /\ pc = "solving"
    /\ sol' = [sol EXCEPT !.optimized = sol.x]
    /\ pc' = "returned"
    /\ UNCHANGED <<method, regen, masked, svecR, svecM, upMask, downMask,
                   lastR, lastM, co, probe>>

\* fit = mc.calc(both=True)[2]
ComputeFit ==
    /\ pc = "returned"
    /\ sol' = [sol EXCEPT !.fit = Calc(Mstr)]
    /\ pc' = "done"
    /\ UNCHANGED <<method, regen, masked, svecR, svecM, upMask, downMask,
                   lastR, lastM, co, probe>>

Next ==
    \/ MakeMasks
    \/ CallSolver
    \/ \E e \in {"makeSpins", "calc"} : CallSolverRaises(e)
    \/ \E xn \in Box : Step(xn)
    \/ \E xn \in Box : Probe(xn)
    \/ \E xn \in Box, e \in {"makeSpins", "calc"} : SolveRaises(xn, e)
    \/ SolverReturn
    \/ ComputeFit

Spec == Init /\ [][Next]_vars

-----------------------------------------------------------------------------
(* Properties of the refinement run (checked under Spec)                   *)

\* The last parameter vector the run's residual was called with.
LastP == IF method = "regen" THEN lastR ELSE lastM

\* C4: when fit = mc.calc(both=True)[2] has run, the structure and the
\* calculator are in the state the residual leaves at the converged
\* parameter vector optimized.x, and fit is the signal of that state.
C4_FitAtConverged ==
    pc = "done" =>
        LET m == ResidualState(Mstr, sol.optimized)
        IN  /\ Mstr.spins = m.spins
            /\ Mstr.basisvecs = m.basisvecs
            /\ Mstr.ordScale = sol.optimized.oscale
            /\ Mstr.paraScale = sol.optimized.pscale
            /\ Mstr.dampRate = sol.optimized.damp
            /\ sol.fit = Calc(m)

\* The bounds as C7 states them.
StatedLo == Param(<<0, 0, 0>>, 0, -PiIdx)
StatedHi == Param(<<100, 100, 100>>, PiIdx, PiIdx)

\* Every draw of p0 is within them.
EveryP0Within ==
    \A u \in UniformUnit, phi \in UniformPhi : InBounds(P0(u, phi), StatedLo, StatedHi)

\* C7: p0 lies within 0 <= oscale, pscale, damp <= 10, 0 <= theta <= pi,
\* -pi <= phi <= pi for every random draw, and so does every vector the
\* residual is called with and every iterate of the solver.
C7_WithinBounds ==
    /\ EveryP0Within
    /\ LastP # None => InBounds(LastP.p, StatedLo, StatedHi)
    /\ sol.x # None => InBounds(sol.x, StatedLo, StatedHi)
    /\ sol.optimized # None => InBounds(sol.optimized, StatedLo, StatedHi)

C7_Witness ==
    /\ pc = "solving"
    /\ LastP # None
    /\ LastP.p # sol.x
    /\ LastP.p.phi = -PiIdx
    /\ LastP.p.th = PiIdx
    /\ LastP.p.oscale = 100
    /\ LastP.p.pscale = 0

\* C8: least_squares is called at most once per run, and when a collaborator
\* raises during a residual evaluation the run ends with that very error:
\* no result, no fit, no second call.
C8_FailurePropagates ==
    /\ sol.calls <= 1
    /\ sol.raised # NoError =>
          /\ pc = "raised"
          /\ sol.calls = 1
          /\ sol.err = sol.raised
          /\ sol.optimized = None
          /\ sol.fit = None

C8_Witness ==
    /\ pc = "raised"
    /\ sol.raised = "makeSpins"
    /\ sol.err = "makeSpins"
    /\ LastP.p.oscale = 100
    /\ regen.basisvecs = Direction(LastP.p.th, LastP.p.phi)
    /\ regen.ordScale = 1
    /\ sol.calls = 1

-----------------------------------------------------------------------------
(* The direction vector at its three call sites                            *)

\* Any of the three places computes a direction: svec from the draws (th0,
\* phi0), newsvec of either residual from the trial angles.
InitDir ==
    /\ \E u \in UniformUnit, phi \in UniformPhi :
          probe = [site |-> "svec", th |-> ArcCos(u), phi |-> phi,
                   vec |-> Direction(ArcCos(u), phi)]
    /\ pc = "dir"
    /\ method = None
    /\ regen = None
    /\ masked = None
    /\ svecR = None
    /\ svecM = None
    /\ upMask = None
    /\ downMask = None
    /\ lastR = None
    /\ lastM = None
    /\ sol = None
    /\ co = None

DirFrame ==
    UNCHANGED <<pc, method, regen, masked, svecR, svecM, upMask, downMask,
                lastR, lastM, sol, co>>

\* svec = np.array([...]) from th0, phi0
DirSvec(u, phi) ==
    /\ probe' = [site |-> "svec", th |-> ArcCos(u), phi |-> phi,
                 vec |-> Direction(ArcCos(u), phi)]
    /\ DirFrame

\* newsvec of the regeneration residual
DirRegen(th, phi) ==
    /\ probe' = [site |-> "regen", th |-> th, phi |-> phi,
                 vec |-> Direction(th, phi)]
    /\ DirFrame

\* newsvec of the masked residual
DirMasked(th, phi) ==
    /\ probe' = [site |-> "masked", th |-> th, phi |-> phi,
                 vec |-> Direction(th, phi)]
    /\ DirFrame

NextDir ==
    \/ \E u \in UniformUnit, phi \in UniformPhi : DirSvec(u, phi)
    \/ \E th \in 0..PiIdx, phi \in (-PiIdx)..PiIdx : DirRegen(th, phi)
    \/ \E th \in 0..PiIdx, phi \in (-PiIdx)..PiIdx : DirMasked(th, phi)

SpecDir == InitDir /\ [][NextDir]_vars

\* C9: for theta in [0, pi] and phi in [-pi, pi] the direction vector has
\* norm 1 (625 in the stored scale, squared), at all three call sites.
C9_UnitNorm ==
    /\ probe.th \in 0..PiIdx
    /\ probe.phi \in (-PiIdx)..PiIdx
    /\ Norm2(probe.vec) = UnitNorm2

C9_Witness ==
    /\ probe.site = "masked"
    /\ probe.th = 4
    /\ probe.phi = -5
    /\ probe.vec = <<-16, -12, -15>>

-----------------------------------------------------------------------------
(* The co-refinement recipe: totpdf = nucscale * nucpdf + mpdf(...)        *)
(*   co = [phase, parascale, ordscale, damp    the recipe's parameters     *)
(*         mc, atoms                           calculator and magstruc     *)
(*         mpdfCache, nucCache                 values held by the equation *)
(*         changed, magChanged, lastEval]      what happened since / at    *)
(*                                             the last evaluation         *)

\* Sample values of a parameter of nucpdf.phase (a lattice parameter).
PhaseSamples == {0, 1, 2}

\* Sample values of parascale, ordscale (tenths) and damp (hundredths); the
\* first of each is the value addVar gives it.
MagSamples == [parascale |-> {40, 41}, ordscale |-> {15, 16}, damp |-> {1, 2}]

\* Faulty variant: the addObserver line left out.
PhaseObserversDefault == {"nucpdf"}

\* Who is told when a parameter of nucpdf.phase changes: the generator that
\* owns the phase, and
\*   nucpdf.phase.addObserver(totpdf.ordscale.notify)
PhaseObservers == {"nucpdf", "ordscale.notify"}

\* def mpdf(parascale, ordscale, damp): the state it leaves (the calculator's
\* scalars set, the magnetic structure rebuilt from the atomic structure) ...
MpdfState(c) ==
    [c EXCEPT !.mc = [paraScale |-> c.parascale, ordScale |-> c.ordscale,
                      dampRate |-> c.damp],
              !.atoms = c.phase]

\* ... and the signal mc.calc(both=True)[2] it returns.
MpdfValue(c) == [atoms |-> MpdfState(c).atoms, mc |-> MpdfState(c).mc]

\* The observers of a phase change, called one after the other.
NotifyPhase(c) ==
    LET c1 == IF "nucpdf" \in PhaseObservers THEN [c EXCEPT !.nucCache = None] ELSE c
    IN  IF "ordscale.notify" \in PhaseObservers
        THEN [c1 EXCEPT !.mpdfCache = None]
        ELSE c1

InitCo ==
    /\ co = [phase |-> 0, parascale |-> 40, ordscale |-> 15, damp |-> 1,
             mc |-> [paraScale |-> 10, ordScale |-> 10, dampRate |-> 0],
             atoms |-> 0, mpdfCache |-> None, nucCache |-> None,
             changed |-> FALSE, magChanged |-> FALSE, lastEval |-> None]
    /\ pc = "recipe"
    /\ method = None
    /\ regen = None
    /\ masked = None
    /\ svecR = None
    /\ svecM = None
    /\ upMask = None
    /\ downMask = None
    /\ lastR = None
    /\ lastM = None
    /\ sol = None
    /\ probe = None

CoFrame ==
    UNCHANGED <<pc, method, regen, masked, svecR, svecM, upMask, downMask,
                lastR, lastM, sol, probe>>

\* The optimizer changes a variable of the atomic structure.
SetStructPar(v) ==
    /\ v # co.phase
    /\ co' = [NotifyPhase([co EXCEPT !.phase = v]) EXCEPT !.changed = TRUE]
    /\ CoFrame

\* The optimizer changes parascale, ordscale or damp: the mpdf node of the
\* equation, which takes them as arguments, drops its value.
SetMagPar(name, v) ==
    /\ v # co[name]
    /\ co' = [co EXCEPT ![name] = v, !.mpdfCache = None, !.magChanged = TRUE]
    /\ CoFrame

\* totpdf.evaluate(): each node of the equation is computed unless it holds
\* a value.
EvaluateTotal ==
    LET callMpdf == co.mpdfCache = None
        c1 == IF callMpdf
              THEN [MpdfState(co) EXCEPT !.mpdfCache = MpdfValue(co)]
              ELSE co
        c2 == IF c1.nucCache = None
              THEN [c1 EXCEPT !.nucCache = [atoms |-> c1.phase]]
              ELSE c1
    IN  /\ co' = [c2 EXCEPT !.changed = FALSE, !.magChanged = FALSE,
                            !.lastEval = [changedBefore |-> co.changed,
                                          magChangedBefore |-> co.magChanged,
                                          hadValue |-> co.lastEval # None,
                                          calledMpdf |-> callMpdf,
                                          mpdf |-> c2.mpdfCache,
                                          nucpdf |-> c2.nucCache]]
        /\ CoFrame

NextCo ==
    \/ \E v \in PhaseSamples : SetStructPar(v)
    \/ \E name \in DOMAIN MagSamples : \E v \in MagSamples[name] : SetMagPar(name, v)
    \/ EvaluateTotal

SpecCo == InitCo /\ [][NextCo]_vars

\* C6: an evaluation of the total PDF that follows a change of a structure
\* parameter calls mpdf again, and the mPDF it uses is computed from the
\* structure as it is now, not the value from before the change.
C6_StructureChangeRecomputes ==
    co.lastEval # None =>
        /\ co.lastEval.changedBefore => co.lastEval.calledMpdf
        /\ ~co.changed => co.lastEval.mpdf.atoms = co.phase

C6_Witness ==
    /\ co.lastEval # None
    /\ co.lastEval.hadValue
    /\ co.lastEval.changedBefore
    /\ ~co.lastEval.magChangedBefore
    /\ co.lastEval.calledMpdf
    /\ co.lastEval.mpdf.atoms = 2
    /\ co.atoms = 2
    /\ co.parascale = 40 /\ co.ordscale = 15 /\ co.damp = 1

====
